---- MODULE Spec2Model ----
(***************************************************************************)
(* Jaoken tile / wallpaper estimator: the opening registry, the deferred   *)
(* preview render, the canvas drag protocol and the tile estimator of      *)
(* src/app.js and src/calculator-logic.js as one state machine.            *)
(*                                                                         *)
(* JavaScript numbers are modelled as exact fractions <<n, d>> with d >= 0 *)
(* in lowest terms; d = 0 encodes the non-finite values: <<1,0>> is        *)
(* Infinity, <<-1,0>> is -Infinity and <<0,0>> is NaN.  Rounding of IEEE   *)
(* doubles and the sign of zero are not modelled.                          *)
(***************************************************************************)
EXTENDS Integers, Sequences, FiniteSets, TLC

VARIABLES
    wallItems,      \* the .wall-item rows of the DOM: their two input texts
    openings,       \* state.openings
    nextId,         \* state.nextId
    lastResult,     \* state.lastResult: <<>> (null) or <<result>>
    tileDragState,  \* tileDragState
    previewRafId,   \* _previewRafId (0 is null)
    rafQueue,       \* callbacks the browser holds for the next animation frame
    panels,         \* the .wall-panel canvases of #preview-scroll-container
    offsetWidth,    \* panel.offsetWidth as the layout resolves it
    tileInputs,     \* texts of the tile parameter inputs (DOM.tileLength, ...)
    wallOptions,    \* number of options in each opening row's wall selector
    call,           \* a direct call of a library function: its arguments and result
    activePattern,  \* state.activePattern: <<>> (null) or <<patternKey>>
    hist            \* history of the run (not program state)

vars == <<wallItems, openings, nextId, lastResult, tileDragState,
          previewRafId, rafQueue, panels, offsetWidth, tileInputs, wallOptions,
          call, activePattern, hist>>

-----------------------------------------------------------------------------
(* Bounds of the model *)

MaxWalls    == 2   \* rows in the wall list
MaxOpenings == 2   \* openings in state.openings
MaxId       == 2   \* largest id addOpening may assign
MaxPending  == 2   \* callbacks the frame queue may hold
MaxCalls    == 2   \* updateLivePreview calls counted between two frames

-----------------------------------------------------------------------------
(* Numbers *)

Abs(i) == IF i < 0 THEN -i ELSE i

Sign(i) == IF i < 0 THEN -1 ELSE IF i > 0 THEN 1 ELSE 0

RECURSIVE Gcd(_, _)
Gcd(a, b) == IF b = 0 THEN a ELSE Gcd(b, a % b)

Norm(n, d) ==
    IF d = 0 THEN <<Sign(n), 0>>
    ELSE LET g == Gcd(Abs(n), Abs(d))
             s == IF d < 0 THEN -1 ELSE 1
         IN  <<(s * n) \div g, (s * d) \div g>>

Num(i)   == <<i, 1>>
Zero     == <<0, 1>>
NaN      == <<0, 0>>
Infinity == <<1, 0>>

IsNaN(a)    == a[1] = 0 /\ a[2] = 0
IsFinite(a) == a[2] > 0

Neg(a) == <<-a[1], a[2]>>

Add(a, b) ==
    IF a[2] = 0 /\ b[2] = 0
    THEN (IF a[1] = b[1] THEN a ELSE NaN)
    ELSE Norm(a[1] * b[2] + b[1] * a[2], a[2] * b[2])

Sub(a, b) == Add(a, Neg(b))

Mul(a, b) == Norm(a[1] * b[1], a[2] * b[2])

Recip(a) == IF a[1] < 0 THEN <<-a[2], -a[1]>> ELSE <<a[2], a[1]>>

Div(a, b) == Mul(a, Recip(b))

\* a < b, a <= b, a > b as JavaScript compares numbers: false when either is NaN
Lt(a, b) ==
    /\ ~IsNaN(a)
    /\ ~IsNaN(b)
    /\ IF a[2] = 0 /\ b[2] = 0 THEN a[1] < b[1] ELSE a[1] * b[2] < b[1] * a[2]

Le(a, b) == ~IsNaN(a) /\ ~IsNaN(b) /\ ~Lt(b, a)

Gt(a, b) == Lt(b, a)

\* Math.min, Math.max, Math.floor, Math.ceil
MathMin(a, b) == IF IsNaN(a) \/ IsNaN(b) THEN NaN ELSE IF Lt(b, a) THEN b ELSE a

MathMax(a, b) == IF IsNaN(a) \/ IsNaN(b) THEN NaN ELSE IF Lt(a, b) THEN b ELSE a

MathFloor(a) == IF a[2] = 0 THEN a ELSE <<a[1] \div a[2], 1>>

MathCeil(a) == Neg(MathFloor(Neg(a)))

\* a % 1: the remainder keeps the sign of a
Mod1(a) ==
    IF a[2] = 0 THEN NaN
    ELSE Sub(a, IF a[1] >= 0 THEN MathFloor(a) ELSE MathCeil(a))

\* a || b on numbers: 0 and NaN are falsy
OrElse(a, b) == IF IsNaN(a) \/ a = Zero THEN b ELSE a

\* Decimal literal n / 10^k
Dec(n, k) == Norm(n, 10 ^ k)

-----------------------------------------------------------------------------
(* Input texts and parseFloat *)

\* parseFloat of the texts the model types into inputs
ParseFloat(text) ==
    CASE text = ""     -> NaN
      [] text = "abc"  -> NaN
      [] text = "-1"   -> Num(-1)
      [] text = "0"    -> Zero
      [] text = "4"    -> Num(4)
      [] text = "1.7"  -> Dec(17, 1)
      [] text = "3.2"  -> Dec(32, 1)
      [] text = "3.4"  -> Dec(34, 1)
      [] text = "30"   -> Num(30)
      [] text = "60"   -> Num(60)
      [] text = "1.44" -> Dec(144, 2)
      [] text = "3"    -> Num(3)
      [] text = "5"    -> Num(5)
      [] text = "10"   -> Num(10)
      [] text = "15"   -> Num(15)
      [] text = "20"   -> Num(20)

-----------------------------------------------------------------------------
(* Openings manager: helpers *)

Kinds == {"door", "window"}

\* the kinds OPENING_DEFAULTS lists
AllKinds == {"door", "window", "mirror"}

\* the table with the sizes of door and mirror exchanged
SwappedDefaults(type) ==
    CASE type = "door"   -> [width |-> Dec(80, 2),  height |-> Dec(100, 2)]
      [] type = "window" -> [width |-> Dec(120, 2), height |-> Dec(140, 2)]
      [] type = "mirror" -> [width |-> Dec(90, 2),  height |-> Dec(210, 2)]

OPENING_DEFAULTS(type) ==
    CASE type = "door"   -> [width |-> Dec(90, 2),  height |-> Dec(210, 2)]
      [] type = "window" -> [width |-> Dec(120, 2), height |-> Dec(140, 2)]
      [] type = "mirror" -> [width |-> Dec(80, 2),  height |-> Dec(100, 2)]

\* getNum(input): parseFloat(el.value) || 0
getNum(text) == OrElse(ParseFloat(text), Zero)

\* getCurrentWalls(): one {w, h} per .wall-item, 0 for an empty or unparsable field
getCurrentWalls(items) ==
    [i \in 1..Len(items) |-> [w |-> getNum(items[i].width), h |-> getNum(items[i].height)]]

\* walls.filter(w => w.w > 0 && w.h > 0)
IsValidWall(wall) == Gt(wall.w, Zero) /\ Gt(wall.h, Zero)

ValidWalls(walls) == SelectSeq(walls, IsValidWall)

\* the positions in the wall list (from 0) of the walls the filter keeps, in order:
\* validWalls[k] is walls[ValidPositions(walls)[k + 1]]
ValidPositions(walls) ==
    SelectSeq([j \in 1..Len(walls) |-> j - 1], LAMBDA j : IsValidWall(walls[j + 1]))

\* walls[wallIndex] || { w: 5, h: 3 }   (wallIndex counts from 0)
WallOrDefault(walls, wallIndex) ==
    IF wallIndex + 1 \in DOMAIN walls THEN walls[wallIndex + 1]
    ELSE [w |-> Num(5), h |-> Num(3)]

\* state.openings.find(o => o.id === id): the position of the first match, 0 if none
FindOpening(ops, id) ==
    IF \E i \in DOMAIN ops : ops[i].id = id
    THEN CHOOSE i \in DOMAIN ops : ops[i].id = id /\ \A j \in 1..(i - 1) : ops[j].id # id
    ELSE 0

-----------------------------------------------------------------------------
(* Tile estimator (calculator-logic.js) *)

RECURSIVE SumSeq(_)
SumSeq(s) == IF s = <<>> THEN Zero ELSE Add(Head(s), SumSeq(Tail(s)))

\* TileLogic.calcTotalDeduction(openings)
calcTotalDeduction(ops) ==
    SumSeq([i \in 1..Len(ops) |-> Mul(OrElse(ops[i].width, Zero), OrElse(ops[i].height, Zero))])

\* the axis count rounded to the nearest whole tile
AxisNearest(len, tile) == MathFloor(Add(Div(len, tile), Dec(5, 1)))

\* ordinary ceiling of the axis count
AxisCeil(len, tile) == MathCeil(Div(len, tile))

\* finalX / finalY of one axis
AxisCount(len, tile) ==
    LET count   == Div(len, tile)
        decimal == Mod1(count)
        final   == IF Gt(decimal, Dec(5, 1)) THEN MathCeil(count)
                   ELSE Add(MathFloor(count), Dec(5, 1))
    IN  IF decimal = Zero THEN count ELSE final

\* a wall's count rounded up to whole tiles
WallCountWhole(wall, tLenM, tWidM) ==
    LET wW == OrElse(wall.w, Zero)
        wH == OrElse(wall.h, Zero)
    IN  IF Gt(wW, Zero) /\ Gt(wH, Zero)
        THEN MathCeil(Mul(AxisCount(wW, tLenM), AxisCount(wH, tWidM)))
        ELSE Zero

\* the tiles one wall adds to totalBaseCount
WallCount(wall, tLenM, tWidM) ==
    LET wW == OrElse(wall.w, Zero)
        wH == OrElse(wall.h, Zero)
    IN  IF Gt(wW, Zero) /\ Gt(wH, Zero)
        THEN Mul(AxisCount(wW, tLenM), AxisCount(wH, tWidM))
        ELSE Zero

WallArea(wall) ==
    LET wW == OrElse(wall.w, Zero)
        wH == OrElse(wall.h, Zero)
    IN  IF Gt(wW, Zero) /\ Gt(wH, Zero) THEN Mul(wW, wH) ELSE Zero

\* a parameter left out of the call (undefined or null)
Null == <<>>

\* the count rounded down instead of up after the waste factor
FinalCountFloor(totalBaseCount, waste) ==
    MathFloor(Mul(totalBaseCount, Add(Num(1), Div(waste, Num(100)))))

\* finalCount = Math.ceil(totalBaseCount * (1 + waste / 100))
FinalCount(totalBaseCount, waste) ==
    MathCeil(Mul(totalBaseCount, Add(Num(1), Div(waste, Num(100)))))

\* TileLogic.calculateAll(params)
calculateAll(params) ==
    LET walls          == params.walls
        tLenM          == Div(OrElse(params.tileLengthCm, Zero), Num(100))
        tWidM          == Div(OrElse(params.tileWidthCm, Zero), Num(100))
        waste          == IF params.wastePercent # Null
                          THEN OrElse(params.wastePercent, Zero) ELSE Zero
        sqmBox         == OrElse(params.sqmPerBox, Zero)
        wallCounts     == SumSeq([i \in 1..Len(walls) |-> WallCount(walls[i], tLenM, tWidM)])
        totalGrossArea == SumSeq([i \in 1..Len(walls) |-> WallArea(walls[i])])
        totalDeduction == calcTotalDeduction(params.openings)
        netArea        == MathMax(Zero, Sub(totalGrossArea, totalDeduction))
        totalBaseCount ==
            IF Gt(totalGrossArea, Zero) /\ Gt(totalDeduction, Zero)
            THEN MathMax(Zero, Sub(wallCounts, Div(totalDeduction, Mul(tLenM, tWidM))))
            ELSE wallCounts
        finalCount     == FinalCount(totalBaseCount, waste)
        purchaseArea   == Mul(finalCount, Mul(tLenM, tWidM))
    IN  [grossArea      |-> totalGrossArea,
         totalDeduction |-> totalDeduction,
         netArea        |-> netArea,
         baseCount      |-> MathCeil(totalBaseCount),
         finalCount     |-> finalCount,
         purchaseArea   |-> purchaseArea,
         boxCount       |-> IF Gt(sqmBox, Zero) THEN MathCeil(Div(purchaseArea, sqmBox)) ELSE Zero,
         wasteTiles     |-> Sub(finalCount, MathCeil(totalBaseCount))]

\* the params record runCalculation builds in detailed mode
CalcParams(walls, ops, inp) ==
    [walls        |-> walls,
     openings     |-> [i \in 1..Len(ops) |-> [width |-> ops[i].width, height |-> ops[i].height]],
     tileLengthCm |-> OrElse(getNum(inp.tileLength), Num(60)),
     tileWidthCm  |-> OrElse(getNum(inp.tileWidth), Num(30)),
     groutMm      |-> getNum(inp.groutJoint),
     wastePercent |-> getNum(inp.wastePct),
     sqmPerBox    |-> OrElse(getNum(inp.sqmPerBox), Dec(144, 2))]

\* runCalculation(): state.lastResult afterwards (renderTileResults stores the
\* result; clearResults leaves state.lastResult as it was)
runCalculation(items, ops, inp, last) ==
    LET walls == ValidWalls(getCurrentWalls(items))
    IN  IF Len(walls) = 0 THEN last
        ELSE <<calculateAll(CalcParams(walls, ops, inp))>>

-----------------------------------------------------------------------------
(* Wallpaper estimator (wallpaper-logic.js) *)

\* WallpaperLogic.calcWallArea(width, height)
calcWallArea(width, height) == Mul(OrElse(width, Zero), OrElse(height, Zero))

\* WallpaperLogic.calcEffectiveStripHeight(wallHeight, patternRepeat)
calcEffectiveStripHeight(wallHeight, patternRepeat) ==
    LET h            == OrElse(wallHeight, Zero)
        r            == OrElse(patternRepeat, Zero)
        safetyMargin == IF Gt(r, Zero) THEN Dec(80, 2) ELSE Zero
    IN  IF Le(h, Zero) THEN Zero ELSE Add(h, safetyMargin)

\* a partial strip counted as a whole one
StripsPerRollCeil(rollLength, effectiveHeight) ==
    LET len  == OrElse(rollLength, Zero)
        effH == OrElse(effectiveHeight, Zero)
    IN  IF Le(effH, Zero) THEN Zero ELSE MathCeil(Div(len, effH))

\* WallpaperLogic.calcStripsPerRoll(rollLength, effectiveHeight)
calcStripsPerRoll(rollLength, effectiveHeight) ==
    LET len  == OrElse(rollLength, Zero)
        effH == OrElse(effectiveHeight, Zero)
    IN  IF Le(effH, Zero) THEN Zero ELSE MathFloor(Div(len, effH))

\* the rolls rounded down instead of up
TotalRollsFloor(totalStrips, stripsPerRoll) ==
    IF Gt(stripsPerRoll, Zero) THEN MathFloor(Div(totalStrips, stripsPerRoll)) ELSE Zero

\* totalRolls = stripsPerRoll > 0 ? Math.ceil(totalStrips / stripsPerRoll) : 0
TotalRolls(totalStrips, stripsPerRoll) ==
    IF Gt(stripsPerRoll, Zero) THEN MathCeil(Div(totalStrips, stripsPerRoll)) ELSE Zero

\* WallpaperLogic.calcWallpaperAll(params)
calcWallpaperAll(params) ==
    LET wallWidth            == OrElse(params.wallWidthM, Zero)
        wallHeight           == OrElse(params.wallHeightM, Zero)
        rollWidth            == OrElse(params.rollWidthM, Zero)
        rollLength           == OrElse(params.rollLengthM, Zero)
        patternRepeat        == OrElse(params.patternRepeatCm, Zero)
        wallArea             == calcWallArea(wallWidth, wallHeight)
        totalStrips          == IF Gt(rollWidth, Zero)
                                THEN MathCeil(Div(wallWidth, rollWidth)) ELSE Zero
        effectiveStripHeight == calcEffectiveStripHeight(wallHeight, patternRepeat)
        stripsPerRoll        == calcStripsPerRoll(rollLength, effectiveStripHeight)
        totalRolls           == TotalRolls(totalStrips, stripsPerRoll)
        totalPurchasedArea   == Mul(totalRolls, Mul(rollWidth, rollLength))
        wastePercent         ==
            IF Gt(totalPurchasedArea, Zero)
            THEN Mul(Div(Sub(totalPurchasedArea, wallArea), totalPurchasedArea), Num(100))
            ELSE Zero
        totalPrice           == Mul(totalRolls, OrElse(params.rollPrice, Zero))
    IN  [wallArea             |-> wallArea,
         totalStrips          |-> totalStrips,
         stripsPerRoll        |-> stripsPerRoll,
         totalRolls           |-> totalRolls,
         effectiveStripHeight |-> effectiveStripHeight,
         totalPurchasedArea   |-> totalPurchasedArea,
         wastePercent         |-> wastePercent,
         totalPrice           |-> totalPrice]

-----------------------------------------------------------------------------
(* Canvas preview *)

PAD   == 40
LABEL == 30

\* the PH every draw pass uses
PanelHeight == 280

\* client size of a canvas element whose CSS size was never set
DefaultCanvasWidth  == 300
DefaultCanvasHeight == 150

\* the last fallback of  panel.offsetWidth || scrollW || 400
FallbackWidth == 400

\* the looser of the two axis constraints
DrawScaleLoose(surfW, surfH, PW, PH) ==
    MathMax(Div(Num(PW - PAD * 2), surfW), Div(Num(PH - PAD * 2 - LABEL), surfH))

\* scale, ox, oy of drawWallPanel for a wall surfW x surfH on a PW x PH panel
DrawScale(surfW, surfH, PW, PH) ==
    MathMin(Div(Num(PW - PAD * 2), surfW), Div(Num(PH - PAD * 2 - LABEL), surfH))

\* drawWallPanel(canvas, wall, wallIndex, explicitW, explicitH): what the panel
\* shows afterwards.  A wall without positive dimensions only gets a text.
drawWallPanel(wall, PW, PH) ==
    LET surfW == OrElse(wall.w, Zero)
        surfH == OrElse(wall.h, Zero)
        scale == DrawScale(surfW, surfH, PW, PH)
        drawW == Mul(surfW, scale)
        drawH == Mul(surfH, scale)
    IN  IF Le(surfW, Zero) \/ Le(surfH, Zero) THEN <<>>
        ELSE <<[surfW |-> surfW, surfH |-> surfH, PW |-> PW, PH |-> PH,
                PAD |-> PAD, LABEL |-> LABEL, scale |-> scale,
                ox |-> Div(Sub(Num(PW), drawW), Num(2)),
                oy |-> Add(Num(LABEL), Div(Sub(Num(PH - LABEL), drawH), Num(2)))]>>

\* a canvas as updateLivePreview creates it: no CSS size yet, nothing drawn
NewPanel == [clientWidth |-> DefaultCanvasWidth, clientHeight |-> DefaultCanvasHeight,
             drawn |-> <<>>]

\* a handle requestAnimationFrame has not handed out to a pending callback
FreshHandle(queue) == CHOOSE h \in 1..(Cardinality(queue) + 1) : \A cb \in queue : cb.id # h

\* a cancelAnimationFrame that cancels nothing
CancelNothing(queue, rafId) == queue

\* cancelAnimationFrame(_previewRafId) when _previewRafId is set
CancelPending(queue, rafId) == {cb \in queue : cb.id # rafId}

\* updateLivePreview(): the frame queue, _previewRafId and the panels afterwards
updateLivePreview(items, queue, rafId, pans) ==
    LET kept       == IF rafId # 0 THEN CancelPending(queue, rafId) ELSE queue
        validWalls == ValidWalls(getCurrentWalls(items))
        handle     == FreshHandle(kept)
    IN  IF Len(validWalls) = 0
        THEN [rafQueue |-> kept, previewRafId |-> 0, panels |-> <<>>]
        ELSE [rafQueue     |-> kept \cup {[id |-> handle, validWalls |-> validWalls]},
              previewRafId |-> handle,
              panels       |-> IF Len(pans) # Len(validWalls)
                               THEN [i \in 1..Len(validWalls) |-> NewPanel]
                               ELSE pans]

\* one panel after the requestAnimationFrame callback drew validWalls[index] on it
DrawnPanel(wall, layoutWidth) ==
    LET PW == IF layoutWidth # 0 THEN layoutWidth ELSE FallbackWidth
    IN  [clientWidth |-> PW, clientHeight |-> PanelHeight,
         drawn |-> drawWallPanel(wall, PW, PanelHeight)]

\* the requestAnimationFrame callback of updateLivePreview
RunCallback(cb, pans, layoutWidth) ==
    [i \in 1..Len(pans) |->
        IF i \in DOMAIN cb.validWalls THEN DrawnPanel(cb.validWalls[i], layoutWidth)
        ELSE pans[i]]

\* scale, ox, oy as the mousedown and mousemove handlers compute them
HitMapping(wall, PW, PH) ==
    LET scale == MathMin(Div(Num(PW - PAD * 2), OrElse(wall.w, Num(1))),
                         Div(Num(PH - PAD * 2 - LABEL), OrElse(wall.h, Num(1))))
    IN  [scale |-> scale,
         ox    |-> Div(Sub(Num(PW), Mul(OrElse(wall.w, Zero), scale)), Num(2)),
         oy    |-> Add(Num(LABEL),
                       Div(Sub(Num(PH - LABEL), Mul(OrElse(wall.h, Zero), scale)), Num(2)))]

\* state.openings.filter(op => op.wallIndex === wallIndex): the openings (their
\* positions in state.openings) that drawWallPanel paints on the canvas tagged
\* wallIndex and that a mousedown on it scans
PanelOpenings(ops, wallIndex) == {i \in DOMAIN ops : ops[i].wallIndex = wallIndex}

\* mx >= opX && mx <= opX + opW && my >= opY && my <= opY + opH
PointerOver(op, m, mx, my) ==
    LET opX == Add(m.ox, Mul(op.x, m.scale))
        opY == Add(m.oy, Mul(op.y, m.scale))
        opW == Mul(op.width, m.scale)
        opH == Mul(op.height, m.scale)
    IN  /\ Le(opX, mx) /\ Le(mx, Add(opX, opW))
        /\ Le(opY, my) /\ Le(my, Add(opY, opH))

\* a forward scan: the first opening of this wall under the pointer
FirstHitOpening(ops, wallIndex, m, mx, my) ==
    LET hits == {i \in PanelOpenings(ops, wallIndex) : PointerOver(ops[i], m, mx, my)}
    IN  IF hits = {} THEN 0 ELSE CHOOSE i \in hits : \A j \in hits : i <= j

\* the opening the mousedown loop stops at: the last one of this wall under the
\* pointer (its position in state.openings), 0 if the loop ends without a hit
HitOpening(ops, wallIndex, m, mx, my) ==
    LET hits == {i \in PanelOpenings(ops, wallIndex) : PointerOver(ops[i], m, mx, my)}
    IN  IF hits = {} THEN 0 ELSE CHOOSE i \in hits : \A j \in hits : j <= i

\* the position taken as computed, without Math.max and Math.min
NoClamp(newPos, wallDim, openingDim) == newPos

\* Math.max(0, Math.min(newPos, wallDim - openingDim))
ClampPosition(newPos, wallDim, openingDim) ==
    MathMax(Zero, MathMin(newPos, Sub(wallDim, openingDim)))

\* startX and startY the mousedown handler records for the opening it hit
GrabOffset(op, m, mx, my) ==
    LET opX == Add(m.ox, Mul(op.x, m.scale))
        opY == Add(m.oy, Mul(op.y, m.scale))
    IN  [startX |-> Div(Sub(mx, opX), m.scale),
         startY |-> Div(Sub(my, opY), m.scale)]

\* the pointer mapped back to metres without the grab offset
PointerOnWall(m, drag, mx, my) ==
    [x |-> Div(Sub(mx, m.ox), m.scale),
     y |-> Div(Sub(my, m.oy), m.scale)]

\* newX and newY of the mousemove handler: the pointer mapped back to metres,
\* less the offset recorded at the press
InversePosition(m, drag, mx, my) ==
    [x |-> Sub(Div(Sub(mx, m.ox), m.scale), drag.startX),
     y |-> Sub(Div(Sub(my, m.oy), m.scale), drag.startY)]

\* op.x and op.y the mousemove handler stores
DragPosition(op, wall, m, drag, mx, my) ==
    LET new == InversePosition(m, drag, mx, my)
    IN  [x |-> ClampPosition(new.x, OrElse(wall.w, Zero), op.width),
         y |-> ClampPosition(new.y, OrElse(wall.h, Zero), op.height)]

-----------------------------------------------------------------------------
(* Inputs the model draws from *)

WidthTexts  == {"", "3.2"}
HeightTexts == {"1.7"}
FieldTexts  == {"4"}
LayoutWidths == {0, 400}

\* pointer positions relative to the canvas, in CSS pixels
PointerPos == {<<200, 160>>, <<800, 800>>}

\* layout widths of a panel on a narrow and on a wide page, and pointer positions
\* on the origin a panel of 80 px gives its wall and inside a 400 px panel
NarrowWidths  == {80, 400}
EdgePointers  == {<<40, 155>>, <<200, 160>>}

\* texts typed into an opening's width and height fields: unparsable, negative, valid
SizeTexts == {"abc", "-1", "4"}

NullId == 0

\* arguments of direct TileLogic.calculateAll calls
TileWallLists == {<<>>,
                  <<[w |-> Dec(32, 1), h |-> Dec(17, 1)]>>,
                  <<[w |-> Num(3), h |-> Dec(25, 1)]>>,
                  <<[w |-> Dec(32, 1), h |-> Dec(17, 1)], [w |-> Num(3), h |-> Dec(25, 1)]>>,
                  <<[w |-> Num(3), h |-> Dec(25, 1)], [w |-> Num(3), h |-> Dec(25, 1)]>>,
                  <<[w |-> Zero, h |-> Dec(25, 1)]>>}
TileOpeningLists == {<<>>,
                     <<[width |-> Dec(90, 2), height |-> Dec(210, 2)]>>,
                     <<[width |-> Dec(90, 2), height |-> Dec(210, 2),
                        x |-> Dec(115, 2), y |-> Zero, wallIndex |-> 1]>>,
                     <<[width |-> Num(-1), height |-> Dec(210, 2)]>>}
TileLengths == {Num(60), Num(30), Zero, Num(-60)}
TileWidths  == {Num(30), Zero}
WastePercents == {Null, Zero, Num(10), NaN}
BoxAreas == {Dec(144, 2), Zero}

TileParams ==
    {[walls        |-> ws,
      openings     |-> os,
      tileLengthCm |-> tl,
      tileWidthCm  |-> tw,
      groutMm      |-> Num(3),
      wastePercent |-> wp,
      sqmPerBox    |-> sb] :
        ws \in TileWallLists, os \in TileOpeningLists, tl \in TileLengths,
        tw \in TileWidths, wp \in WastePercents, sb \in BoxAreas}

\* arguments of direct WallpaperLogic.calcWallpaperAll calls
WallWidthsM   == {Num(4), Dec(106, 2), Zero}
WallHeightsM  == {Dec(27, 1), Num(12), Zero}
RollWidthsM   == {Dec(53, 2), Dec(106, 2), Zero}
RollLengthsM  == {Dec(1005, 2), Num(2), Zero, Num(-2)}
PatternRepeats == {Zero, Num(64)}
RollPrices    == {Zero, Num(25)}

WallpaperParams ==
    {[wallWidthM      |-> ww,
      wallHeightM     |-> wh,
      rollWidthM      |-> rw,
      rollLengthM     |-> rl,
      patternRepeatCm |-> pr,
      rollPrice       |-> price] :
        ww \in WallWidthsM, wh \in WallHeightsM, rw \in RollWidthsM,
        rl \in RollLengthsM, pr \in PatternRepeats, price \in RollPrices}

\* arguments of direct drawWallPanel calls: the wall and explicitW, explicitH
DrawnWalls == {[w |-> Dec(32, 1), h |-> Dec(17, 1)],
               [w |-> Num(3), h |-> Dec(25, 1)],
               [w |-> Num(10), h |-> Num(1)],
               [w |-> Num(1), h |-> Num(10)],
               [w |-> Dec(5, 1), h |-> Dec(5, 1)],
               [w |-> Zero, h |-> Dec(25, 1)]}
PanelWidths  == {60, 80, 300, 400, 1200}
PanelHeights == {150, 280}

DrawParams ==
    {[wall |-> wall, explicitW |-> pw, explicitH |-> ph] :
        wall \in DrawnWalls, pw \in PanelWidths, ph \in PanelHeights}

\* no library call in progress
NoCall == [fn |-> "none"]

-----------------------------------------------------------------------------
(* State *)

\* the page after init(), before any event; init() applies the 'custom' pattern,
\* which writes 0 into the waste slider
InitApp ==
    /\ wallItems = <<[width |-> "", height |-> ""]>>
    /\ openings = <<>>
    /\ nextId = 1
    /\ lastResult = <<>>
    /\ tileDragState = [targetId |-> NullId, isDragging |-> FALSE,
                        startX |-> Zero, startY |-> Zero, wallIndex |-> 0]
    /\ previewRafId = 0
    /\ rafQueue = {}
    /\ panels = <<>>
    /\ offsetWidth = 400
    /\ tileInputs = [tileLength |-> "60", tileWidth |-> "30", groutJoint |-> "3",
                     wastePct |-> "0", sqmPerBox |-> "1.44"]
    /\ wallOptions = 0
    /\ activePattern = <<"custom">>
    /\ hist = [maxAssigned |-> 0, calls |-> 0, stale |-> FALSE, moved |-> FALSE]

Init ==
    /\ InitApp
    /\ call = NoCall

\* the effect of one updateLivePreview() call on the preview state and the history;
\* byMove tells whether the caller is the mousemove handler
PreviewedBy(items, h, byMove) ==
    LET r == updateLivePreview(items, rafQueue, previewRafId, panels)
    IN  /\ Cardinality(r.rafQueue) <= MaxPending
        /\ rafQueue' = r.rafQueue
        /\ previewRafId' = r.previewRafId
        /\ panels' = r.panels
        /\ hist' = [h EXCEPT !.calls = IF @ < MaxCalls THEN @ + 1 ELSE @,
                             !.moved = byMove]

Previewed(items, h) == PreviewedBy(items, h, FALSE)

Calculated(items, ops) ==
    lastResult' = runCalculation(items, ops, tileInputs, lastResult)

-----------------------------------------------------------------------------
(* Openings manager: operations *)

\* an opening placed without Math.max(0, ...)
UnclampedOpening(type, wallIndex, id, walls) ==
    LET defaults == OPENING_DEFAULTS(type)
        wall     == WallOrDefault(walls, wallIndex)
    IN  [id        |-> id,
         type      |-> type,
         width     |-> defaults.width,
         height    |-> defaults.height,
         wallIndex |-> wallIndex,
         x         |-> Div(Sub(wall.w, defaults.width), Num(2)),
         y         |-> IF type = "door"
                       THEN Sub(wall.h, defaults.height)
                       ELSE Div(Sub(wall.h, defaults.height), Num(2))]

\* the opening addOpening pushes
NewOpening(type, wallIndex, id, walls) ==
    LET defaults == OPENING_DEFAULTS(type)
        wall     == WallOrDefault(walls, wallIndex)
    IN  [id        |-> id,
         type      |-> type,
         width     |-> defaults.width,
         height    |-> defaults.height,
         wallIndex |-> wallIndex,
         x         |-> MathMax(Zero, Div(Sub(wall.w, defaults.width), Num(2))),
         y         |-> IF type = "door"
                       THEN MathMax(Zero, Sub(wall.h, defaults.height))
                       ELSE MathMax(Zero, Div(Sub(wall.h, defaults.height), Num(2)))]

\* state.nextId read without the increment
TakeSameId(next) == [id |-> next, nextId |-> next]

\* the value of state.nextId++ and the counter afterwards
TakeId(next) == [id |-> next, nextId |-> next + 1]

\* renderOpenings(): the wall selectors list the walls of this moment; with no
\* opening it returns before building any row
renderOpenings(ops, items, options) == IF Len(ops) = 0 THEN options ELSE Len(items)

addOpening(type, wallIndex) ==
    /\ Len(openings) < MaxOpenings
    /\ nextId <= MaxId
    /\ LET t == TakeId(nextId)
       IN  /\ openings' = Append(openings,
                    NewOpening(type, wallIndex, t.id, getCurrentWalls(wallItems)))
           /\ nextId' = t.nextId
           /\ Previewed(wallItems, [hist EXCEPT
                    !.maxAssigned = IF t.id > @ THEN t.id ELSE @])
    /\ wallOptions' = renderOpenings(openings', wallItems, wallOptions)
    /\ Calculated(wallItems, openings')
    /\ UNCHANGED <<activePattern, wallItems, tileDragState, offsetWidth, tileInputs, call>>

\* a filter that keeps the opening named and drops the others
OnlyOpening(ops, id) == SelectSeq(ops, LAMBDA o : o.id = id)

\* state.openings.filter(o => o.id !== id)
WithoutOpening(ops, id) == SelectSeq(ops, LAMBDA o : o.id # id)

removeOpening(id) ==
    /\ openings' = WithoutOpening(openings, id)
    /\ wallOptions' = renderOpenings(openings', wallItems, wallOptions)
    /\ Previewed(wallItems, [hist EXCEPT
            !.stale = @ \/ (/\ tileDragState.isDragging
                             /\ tileDragState.targetId = id
                             /\ FindOpening(openings, id) # 0)])
    /\ Calculated(wallItems, openings')
    /\ UNCHANGED <<activePattern, wallItems, nextId, tileDragState, offsetWidth, tileInputs, call>>

\* a field update that also moves the opening to the wall's origin
SetFieldAndMove(op, field, value) ==
    LET v == OrElse(value, Zero)
    IN  CASE field = "width"     -> [op EXCEPT !.width = v]
          [] field = "height"    -> [op EXCEPT !.height = v]
          [] field = "wallIndex" -> [op EXCEPT !.wallIndex = v[1], !.x = Zero, !.y = Zero]

\* opening[field] = parseFloat(value) || 0
SetField(op, field, value) ==
    LET v == OrElse(value, Zero)
    IN  CASE field = "width"     -> [op EXCEPT !.width = v]
          [] field = "height"    -> [op EXCEPT !.height = v]
          [] field = "wallIndex" -> [op EXCEPT !.wallIndex = v[1]]

\* updateOpeningField(id, field, value) with value already parsed by parseFloat
updateOpeningField(id, field, value) ==
    LET i == FindOpening(openings, id)
    IN  IF i = 0 THEN UNCHANGED vars
        ELSE /\ openings' = [openings EXCEPT ![i] = SetField(@, field, value)]
             /\ Previewed(wallItems, hist)
             /\ Calculated(wallItems, openings')
             /\ UNCHANGED <<activePattern, wallItems, nextId, tileDragState, offsetWidth, tileInputs,
                            wallOptions, call>>

updateOpeningType(id, type) ==
    LET i == FindOpening(openings, id)
    IN  IF i = 0 THEN UNCHANGED vars
        ELSE /\ openings' = [openings EXCEPT ![i] =
                    [@ EXCEPT !.type = type,
                              !.width = OPENING_DEFAULTS(type).width,
                              !.height = OPENING_DEFAULTS(type).height]]
             /\ wallOptions' = renderOpenings(openings', wallItems, wallOptions)
             /\ Previewed(wallItems, hist)
             /\ Calculated(wallItems, openings')
             /\ UNCHANGED <<activePattern, wallItems, nextId, tileDragState, offsetWidth, tileInputs, call>>

\* 'change' on an opening row's wall selector: parseInt(option.value)
SelectOpeningWall(id, idx) ==
    /\ FindOpening(openings, id) # 0
    /\ idx < wallOptions
    /\ updateOpeningField(id, "wallIndex", Num(idx))

-----------------------------------------------------------------------------
(* Layout pattern *)

PatternKeys == {"standard", "brick", "diagonal", "custom"}

\* LAYOUT_PATTERNS[key].wastePercent
LAYOUT_PATTERNS(key) ==
    CASE key = "standard" -> [wastePercent |-> Num(5)]
      [] key = "brick"    -> [wastePercent |-> Num(10)]
      [] key = "diagonal" -> [wastePercent |-> Num(15)]
      [] key = "custom"   -> [wastePercent |-> Zero]

\* a switch whose brick case has the waste of the standard layout
PatternWasteBrickAsStandard(patternKey) ==
    CASE patternKey = "standard" -> 5
      [] patternKey = "brick"    -> 5
      [] patternKey = "diagonal" -> 15
      [] patternKey = "custom"   -> 0
      [] OTHER                   -> 0

\* the switch of applyLayoutPattern: wasteVal
PatternWaste(patternKey) ==
    CASE patternKey = "standard" -> 5
      [] patternKey = "brick"    -> 10
      [] patternKey = "diagonal" -> 15
      [] patternKey = "custom"   -> 0
      [] OTHER                   -> 0

\* DOM.wastePct.value = wasteVal: the number as the input's text
WasteText(wasteVal) ==
    CASE wasteVal = 0  -> "0"
      [] wasteVal = 5  -> "5"
      [] wasteVal = 10 -> "10"
      [] wasteVal = 15 -> "15"

\* clearActivePattern(): state.activePattern afterwards
clearActivePattern == <<>>

\* positions the waste slider is moved to
SliderTexts == {"0", "10", "20"}

\* applyLayoutPattern(patternKey): a click on a pattern button
applyLayoutPattern(patternKey) ==
    /\ activePattern' = <<patternKey>>
    /\ tileInputs' = [tileInputs EXCEPT !.wastePct = WasteText(PatternWaste(patternKey))]
    /\ lastResult' = runCalculation(wallItems, openings, tileInputs', lastResult)
    /\ hist' = [hist EXCEPT !.moved = FALSE]
    /\ UNCHANGED <<wallItems, openings, nextId, tileDragState, previewRafId, rafQueue,
                   panels, offsetWidth, wallOptions, call>>

\* 'input' on the waste slider
WasteInput(text) ==
    /\ tileInputs.wastePct # text
    /\ tileInputs' = [tileInputs EXCEPT !.wastePct = text]
    /\ activePattern' = clearActivePattern
    /\ lastResult' = runCalculation(wallItems, openings, tileInputs', lastResult)
    /\ hist' = [hist EXCEPT !.moved = FALSE]
    /\ UNCHANGED <<wallItems, openings, nextId, tileDragState, previewRafId, rafQueue,
                   panels, offsetWidth, wallOptions, call>>

-----------------------------------------------------------------------------
(* Wall list *)

\* addWall(): a new row with empty inputs; no preview, no calculation
addWall ==
    /\ Len(wallItems) < MaxWalls
    /\ wallItems' = Append(wallItems, [width |-> "", height |-> ""])
    /\ hist' = [hist EXCEPT !.moved = FALSE]
    /\ UNCHANGED <<activePattern, openings, nextId, lastResult, tileDragState, previewRafId, rafQueue,
                   panels, offsetWidth, tileInputs, wallOptions, call>>

\* the x button of a row addWall created
RemoveWall(i) ==
    /\ i \in 2..Len(wallItems)
    /\ wallItems' = SubSeq(wallItems, 1, i - 1) \o SubSeq(wallItems, i + 1, Len(wallItems))
    /\ Previewed(wallItems', hist)
    /\ Calculated(wallItems', openings)
    /\ UNCHANGED <<activePattern, openings, nextId, tileDragState, offsetWidth, tileInputs, wallOptions, call>>

\* 'input' on a wall row's width or height field (the delegated listener of
\* #wallsList; a row addWall created runs its own listener too, with the same calls)
EditWall(i, field, text) ==
    /\ i \in DOMAIN wallItems
    /\ \/ field = "width"  /\ wallItems[i].width # text
          /\ wallItems' = [wallItems EXCEPT ![i].width = text]
       \/ field = "height" /\ wallItems[i].height # text
          /\ wallItems' = [wallItems EXCEPT ![i].height = text]
    /\ Previewed(wallItems', hist)
    /\ Calculated(wallItems', openings)
    /\ UNCHANGED <<activePattern, openings, nextId, tileDragState, offsetWidth, tileInputs, wallOptions, call>>

\* the wall rows resetTiles leaves: the first one, emptied
ResetWalls(items) ==
    IF Len(items) = 0 THEN items ELSE <<[width |-> "", height |-> ""]>>

resetTiles ==
    /\ wallItems' = ResetWalls(wallItems)
    /\ tileInputs' = [tileLength |-> "60", tileWidth |-> "30", groutJoint |-> "3",
                      wastePct |-> "0", sqmPerBox |-> "1.44"]
    /\ openings' = <<>>
    /\ nextId' = 1
    /\ wallOptions' = renderOpenings(openings', wallItems', wallOptions)
    /\ lastResult' = <<>>
    /\ Previewed(wallItems', [hist EXCEPT
            !.stale = @ \/ (/\ tileDragState.isDragging
                             /\ FindOpening(openings, tileDragState.targetId) # 0)])
    /\ activePattern' = clearActivePattern
    /\ UNCHANGED <<tileDragState, offsetWidth, call>>

-----------------------------------------------------------------------------
(* Canvas drag and drop *)

\* mousedown on the canvas of panel k (canvas._wallIndex = k) at pointer p
MouseDown(k, p) ==
    /\ k + 1 \in DOMAIN panels
    /\ p[1] >= 0 /\ p[1] <= panels[k + 1].clientWidth
    /\ p[2] >= 0 /\ p[2] <= panels[k + 1].clientHeight
    /\ LET wall == WallOrDefault(getCurrentWalls(wallItems), k)
           m    == HitMapping(wall, panels[k + 1].clientWidth, panels[k + 1].clientHeight)
           i    == HitOpening(openings, k, m, Num(p[1]), Num(p[2]))
           op   == openings[i]
           grab == GrabOffset(op, m, Num(p[1]), Num(p[2]))
       IN  IF i = 0
           THEN /\ tileDragState' = tileDragState
                /\ Previewed(wallItems, hist)
           ELSE /\ tileDragState' = [targetId   |-> op.id,
                                     isDragging |-> TRUE,
                                     wallIndex  |-> k,
                                     startX     |-> grab.startX,
                                     startY     |-> grab.startY]
                /\ Previewed(wallItems, [hist EXCEPT !.stale = FALSE])
    /\ UNCHANGED <<activePattern, wallItems, openings, nextId, lastResult, offsetWidth, tileInputs,
                   wallOptions, call>>

\* mousemove on the window at pointer p (relative to the canvas of the dragged wall)
MouseMove(p) ==
    LET i         == FindOpening(openings, tileDragState.targetId)
        wallIndex == tileDragState.wallIndex
    IN  IF ~tileDragState.isDragging \/ i = 0 \/ ~(wallIndex + 1 \in DOMAIN panels)
        THEN UNCHANGED vars
        ELSE LET wall   == WallOrDefault(getCurrentWalls(wallItems), wallIndex)
                 canvas == panels[wallIndex + 1]
                 m      == HitMapping(wall, canvas.clientWidth, canvas.clientHeight)
                 pos    == DragPosition(openings[i], wall, m, tileDragState,
                                        Num(p[1]), Num(p[2]))
             IN  /\ openings' = [openings EXCEPT ![i].x = pos.x, ![i].y = pos.y]
                 /\ PreviewedBy(wallItems, hist, TRUE)
                 /\ UNCHANGED <<activePattern, wallItems, nextId, lastResult, tileDragState, offsetWidth,
                                tileInputs, wallOptions, call>>

\* mouseup on the window
MouseUp ==
    IF ~tileDragState.isDragging THEN UNCHANGED vars
    ELSE /\ tileDragState' = [tileDragState EXCEPT !.isDragging = FALSE, !.targetId = NullId]
         /\ Previewed(wallItems, [hist EXCEPT !.stale = FALSE])
         /\ UNCHANGED <<activePattern, wallItems, openings, nextId, lastResult, offsetWidth, tileInputs,
                        wallOptions, call>>

-----------------------------------------------------------------------------
(* Animation frames and layout *)

RECURSIVE RunAll(_, _, _)
RunAll(queue, pans, layoutWidth) ==
    IF queue = {} THEN pans
    ELSE LET cb == CHOOSE c \in queue : \A d \in queue : c.id <= d.id
         IN  RunAll(queue \ {cb}, RunCallback(cb, pans, layoutWidth), layoutWidth)

\* the browser runs the callbacks pending for this frame
Frame ==
    /\ panels' = RunAll(rafQueue, panels, offsetWidth)
    /\ rafQueue' = {}
    /\ previewRafId' = IF rafQueue = {} THEN previewRafId ELSE 0
    /\ hist' = [hist EXCEPT !.calls = 0, !.moved = FALSE]
    /\ UNCHANGED <<activePattern, wallItems, openings, nextId, lastResult, tileDragState, offsetWidth,
                   tileInputs, wallOptions, call>>

\* the preview container is laid out at another width; its ResizeObserver calls
\* updateLivePreview()
Resize(width) ==
    /\ width # offsetWidth
    /\ offsetWidth' = width
    /\ Previewed(wallItems, hist)
    /\ UNCHANGED <<activePattern, wallItems, openings, nextId, lastResult, tileDragState, tileInputs,
                   wallOptions, call>>

-----------------------------------------------------------------------------

Ids == 1..MaxId

\* the wall rows' inputs
WallEvents ==
    \/ addWall
    \/ \E i \in 1..MaxWalls : RemoveWall(i)
    \/ \E i \in 1..MaxWalls, text \in WidthTexts : EditWall(i, "width", text)
    \/ \E i \in 1..MaxWalls, text \in HeightTexts : EditWall(i, "height", text)

\* the pointer on the canvas of the first panel
PointerEvents ==
    \/ \E p \in PointerPos : MouseDown(0, p)
    \/ \E p \in PointerPos : MouseMove(p)
    \/ MouseUp

\* Degenerate geometry: one wall whose inputs are emptied and filled, a panel laid
\* out 80 px or 400 px wide, a window added, pressed and moved.
NextDegenerate ==
    \/ addOpening("window", 0)
    \/ \E text \in WidthTexts : EditWall(1, "width", text)
    \/ \E text \in HeightTexts : EditWall(1, "height", text)
    \/ \E width \in NarrowWidths : Resize(width)
    \/ Frame
    \/ \E p \in EdgePointers : MouseDown(0, p)
    \/ \E p \in EdgePointers : MouseMove(p)
    \/ MouseUp

SpecDegenerate == Init /\ [][NextDegenerate]_vars

\* a library function is called with the arguments held in call
Returns(fn, result) ==
    /\ call.fn = fn
    /\ call.result = <<>>
    /\ call' = [call EXCEPT !.result = <<result>>]
    /\ UNCHANGED <<activePattern, wallItems, openings, nextId, lastResult, tileDragState, previewRafId,
                   rafQueue, panels, offsetWidth, tileInputs, wallOptions, hist>>

\* TileLogic.calculateAll called directly with any of the parameter records
InitTile ==
    /\ InitApp
    /\ call \in {[fn |-> "calculateAll", params |-> ps, result |-> <<>>] : ps \in TileParams}

NextTile == Returns("calculateAll", calculateAll(call.params))

SpecTile == InitTile /\ [][NextTile]_vars

\* WallpaperLogic.calcWallpaperAll called directly with any of the parameter records
InitWallpaper ==
    /\ InitApp
    /\ call \in {[fn |-> "calcWallpaperAll", params |-> ps, result |-> <<>>] :
                    ps \in WallpaperParams}

NextWallpaper == Returns("calcWallpaperAll", calcWallpaperAll(call.params))

SpecWallpaper == InitWallpaper /\ [][NextWallpaper]_vars

\* drawWallPanel called directly with any wall and panel size
InitGeometry ==
    /\ InitApp
    /\ call \in {[fn |-> "drawWallPanel", params |-> ps, result |-> <<>>] :
                    ps \in DrawParams}

NextGeometry ==
    Returns("drawWallPanel",
            drawWallPanel(call.params.wall, call.params.explicitW, call.params.explicitH))

SpecGeometry == InitGeometry /\ [][NextGeometry]_vars

\* The preview: walls come and go, the layout width changes, frames run, and the
\* pointer is pressed on either panel; no opening is created.
NextPreview ==
    \/ WallEvents
    \/ resetTiles
    \/ \E k \in 0..(MaxWalls - 1), p \in PointerPos : MouseDown(k, p)
    \/ Frame
    \/ \E width \in LayoutWidths : Resize(width)

SpecPreview == Init /\ [][NextPreview]_vars

\* The openings manager over a changing wall list, without pointer input.
NextRegistry ==
    \/ \E wallIndex \in 0..(MaxWalls - 1) : addOpening("door", wallIndex)
    \/ \E id \in Ids : removeOpening(id)
    \/ \E id \in Ids, idx \in 0..(MaxWalls - 1) : SelectOpeningWall(id, idx)
    \/ resetTiles
    \/ WallEvents
    \/ Frame

SpecRegistry == Init /\ [][NextRegistry]_vars

\* Dragging on one wall: openings are added on wall 0, removed and reset while the
\* pointer is pressed, moved and released.
NextDrag ==
    \/ \E type \in Kinds : addOpening(type, 0)
    \/ \E id \in Ids : removeOpening(id)
    \/ resetTiles
    \/ \E text \in WidthTexts : EditWall(1, "width", text)
    \/ \E text \in HeightTexts : EditWall(1, "height", text)
    \/ PointerEvents
    \/ Frame

SpecDrag == Init /\ [][NextDrag]_vars

\* Every operation on the opening list, on one wall: the add button (a door on
\* wall 0), removal, size and type edits, and drags.
NextEdit ==
    \/ addOpening("door", 0)
    \/ \E id \in Ids : removeOpening(id)
    \/ \E id \in Ids, text \in FieldTexts : updateOpeningField(id, "width", ParseFloat(text))
    \/ \E id \in Ids, type \in Kinds : updateOpeningType(id, type)
    \/ \E text \in WidthTexts \ {""} : EditWall(1, "width", text)
    \/ \E text \in HeightTexts : EditWall(1, "height", text)
    \/ PointerEvents
    \/ Frame

SpecEdit == Init /\ [][NextEdit]_vars

\* The size fields of the opening rows: any text typed into width or height, for
\* ids that name an opening and ids that name none.
NextField ==
    \/ addOpening("door", 0)
    \/ \E id \in Ids : removeOpening(id)
    \/ \E id \in Ids, field \in {"width", "height"}, text \in SizeTexts :
            updateOpeningField(id, field, ParseFloat(text))
    \/ \E text \in WidthTexts \ {""} : EditWall(1, "width", text)
    \/ \E text \in HeightTexts : EditWall(1, "height", text)
    \/ Frame

SpecField == Init /\ [][NextField]_vars

\* Default placement: an opening of any kind is added on the wall row or on an
\* index that names no wall, while the row's inputs change.
NextPlace ==
    \/ \E type \in AllKinds, wallIndex \in 0..1 : addOpening(type, wallIndex)
    \/ \E id \in Ids : removeOpening(id)
    \/ \E text \in WidthTexts : EditWall(1, "width", text)
    \/ \E text \in HeightTexts : EditWall(1, "height", text)
    \/ Frame

SpecPlace == Init /\ [][NextPlace]_vars

------------------------------------------------------------------------\* The layout pattern and the waste slider: pattern buttons are clicked, the slider
\* is moved, the form is reset, and the wall row and the opening list change.
NextPattern ==
    \/ \E patternKey \in PatternKeys : applyLayoutPattern(patternKey)
    \/ \E text \in SliderTexts : WasteInput(text)
    \/ resetTiles
    \/ addOpening("door", 0)
    \/ \E text \in WidthTexts : EditWall(1, "width", text)
    \/ \E text \in HeightTexts : EditWall(1, "height", text)
    \/ Frame

SpecPattern == Init /\ [][NextPattern]_vars

-----
(* Properties *)

\* C1 as stated: after every mousemove handled while a drag is active, the dragged
\* opening satisfies 0 <= x <= wallWidth - width and 0 <= y <= wallHeight - height
\* for the wall it is dragged on.
DragWithinWallExact ==
    [][\A p \in PointerPos :
        (/\ tileDragState.isDragging
         /\ FindOpening(openings, tileDragState.targetId) # 0
         /\ tileDragState.wallIndex + 1 \in DOMAIN panels
         /\ MouseMove(p))
        => LET op   == openings'[FindOpening(openings, tileDragState.targetId)]
               wall == WallOrDefault(getCurrentWalls(wallItems), tileDragState.wallIndex)
           IN  /\ Le(Zero, op.x) /\ Le(op.x, Sub(OrElse(wall.w, Zero), op.width))
               /\ Le(Zero, op.y) /\ Le(op.y, Sub(OrElse(wall.h, Zero), op.height))]_vars

\* C1 with the upper bounds the clamp gives: after every mousemove handled while a
\* drag is active, the dragged opening satisfies 0 <= x <= max(0, wallWidth -
\* width) and 0 <= y <= max(0, wallHeight - height): an opening larger than its
\* wall along an axis is held at 0 on that axis.
DragWithinWall ==
    [][\A p \in PointerPos :
        (/\ tileDragState.isDragging
         /\ FindOpening(openings, tileDragState.targetId) # 0
         /\ tileDragState.wallIndex + 1 \in DOMAIN panels
         /\ MouseMove(p))
        => LET op   == openings'[FindOpening(openings, tileDragState.targetId)]
               wall == WallOrDefault(getCurrentWalls(wallItems), tileDragState.wallIndex)
               maxX == MathMax(Zero, Sub(OrElse(wall.w, Zero), op.width))
               maxY == MathMax(Zero, Sub(OrElse(wall.h, Zero), op.height))
           IN  /\ Le(Zero, op.x) /\ Le(op.x, maxX)
               /\ Le(Zero, op.y) /\ Le(op.y, maxY)]_vars

\* a door taller than its wall was dragged to the right edge: x = wallWidth - width,
\* y = 0
DraggedToRightEdge ==
    /\ tileDragState.isDragging
    /\ \E i \in DOMAIN openings :
        LET op   == openings[i]
            wall == WallOrDefault(getCurrentWalls(wallItems), tileDragState.wallIndex)
        IN  /\ op.id = tileDragState.targetId
            /\ Gt(op.height, wall.h)
            /\ Gt(wall.w, op.width)
            /\ op.x = Sub(wall.w, op.width)
            /\ op.y = Zero

\* C2 as stated: in every reachable state every opening satisfies
\* 0 <= x <= wallWidth - width and 0 <= y <= wallHeight - height with respect to the
\* wall at its wallIndex.
PositionsWithinWall ==
    \A i \in DOMAIN openings :
        LET op   == openings[i]
            wall == WallOrDefault(getCurrentWalls(wallItems), op.wallIndex)
        IN  /\ Le(Zero, op.x) /\ Le(op.x, Sub(wall.w, op.width))
            /\ Le(Zero, op.y) /\ Le(op.y, Sub(wall.h, op.height))

\* C2, lower bounds: in every reachable state every opening has a finite x >= 0
\* and a finite y >= 0 (the upper bounds x <= wallWidth - width and y <=
\* wallHeight - height are not kept by the size and wall edits).
PositionsNonNegative ==
    \A i \in DOMAIN openings :
        /\ IsFinite(openings[i].x) /\ Le(Zero, openings[i].x)
        /\ IsFinite(openings[i].y) /\ Le(Zero, openings[i].y)

\* an opening widened to 4 m on a 3.2 m wall keeps the x it was placed at
WidenedBeyondWall ==
    \E i \in DOMAIN openings :
        LET op   == openings[i]
            wall == WallOrDefault(getCurrentWalls(wallItems), op.wallIndex)
        IN  /\ op.width = Num(4)
            /\ Gt(wall.w, Zero)
            /\ Gt(op.x, Zero)
            /\ Gt(op.x, Sub(wall.w, op.width))

\* C3 as stated: at most one render callback is pending, and once updateLivePreview
\* was called since the last frame exactly one draw pass is pending.
RenderAlwaysPending ==
    /\ Cardinality(rafQueue) <= 1
    /\ hist.calls > 0 => Cardinality(rafQueue) = 1

\* C3 amended: at most one render callback is pending; it is the one the latest
\* updateLivePreview call scheduled, for the walls valid now; and after calls since
\* the last frame exactly one is pending if some wall has positive dimensions, none
\* otherwise.
RenderCoalesced ==
    LET validWalls == ValidWalls(getCurrentWalls(wallItems))
    IN  /\ Cardinality(rafQueue) <= 1
        /\ \A cb \in rafQueue : cb.id = previewRafId /\ cb.validWalls = validWalls
        /\ hist.calls = 0 => rafQueue = {}
        /\ hist.calls > 0 => Cardinality(rafQueue) = (IF Len(validWalls) > 0 THEN 1 ELSE 0)

\* updateLivePreview ran twice or more since the last frame and one callback is pending
TwoCallsOnePending ==
    /\ hist.calls >= 2
    /\ Cardinality(rafQueue) = 1

\* C4: for every panel that was drawn, the wall size, the panel pixel size, PAD and
\* LABEL a mousedown or mousemove on it would use are those of its most recent
\* drawWallPanel call.
HitTestUsesDrawnMapping ==
    \A k \in DOMAIN panels :
        panels[k].drawn # <<>> =>
            LET d    == panels[k].drawn[1]
                wall == WallOrDefault(getCurrentWalls(wallItems), k - 1)
            IN  /\ wall.w = d.surfW
                /\ wall.h = d.surfH
                /\ panels[k].clientWidth = d.PW
                /\ panels[k].clientHeight = d.PH
                /\ PAD = d.PAD
                /\ LABEL = d.LABEL

\* C5: while some wall is valid, the totalDeduction of the last result is the sum
\* over the openings whose wallIndex resolves to a wall of the current list.
OrphansNotDeducted ==
    Len(ValidWalls(getCurrentWalls(wallItems))) > 0 =>
        /\ lastResult # <<>>
        /\ lastResult[1].totalDeduction =
              calcTotalDeduction(SelectSeq(openings,
                    LAMBDA o : o.wallIndex + 1 \in DOMAIN wallItems))

\* C6: once the opening a press captured was removed without a release, no mousemove
\* changes the opening list until a new press hits an opening.
StaleDragMovesNothing ==
    [][\A p \in PointerPos : (hist.stale /\ MouseMove(p)) => openings' = openings]_vars

\* C7: a mousemove changes an opening only while the opening a mousedown hit is
\* still captured, and changes no other opening; after a mouseup isDragging is
\* false and targetId is null.
DragProtocol ==
    [][/\ \A p \in PointerPos :
            (MouseMove(p) /\ openings' # openings) =>
                /\ tileDragState.isDragging
                /\ ~hist.stale
                /\ Len(openings') = Len(openings)
                /\ \A i \in DOMAIN openings :
                      openings[i].id # tileDragState.targetId => openings'[i] = openings[i]
       /\ MouseUp => (~tileDragState'.isDragging /\ tileDragState'.targetId = NullId)]_vars

\* C8: every id addOpening assigns is greater than every id assigned before.
IdsNeverReused ==
    [][\A type \in Kinds, wallIndex \in 0..(MaxWalls - 1) :
        addOpening(type, wallIndex) => nextId > hist.maxAssigned]_vars

\* C9: the ids of the openings in state.openings are pairwise distinct and each is
\* less than state.nextId.
IdsDistinctBelowNext ==
    /\ \A i, j \in DOMAIN openings : i # j => openings[i].id # openings[j].id
    /\ \A i \in DOMAIN openings : openings[i].id < nextId

\* two openings are listed
TwoOpeningsListed ==
    /\ Len(openings) = 2
    /\ nextId = 3

\* C10: addOpening appends and leaves the listed openings as they were;
\* removeOpening(id) removes the opening with that id and keeps the others in order;
\* updateOpeningField, updateOpeningType and a drag move change no opening but the
\* one they target; an id that names no opening leaves the list as it was.
OthersUntouched ==
    [][/\ \A type \in Kinds, wallIndex \in 0..(MaxWalls - 1) :
            addOpening(type, wallIndex) =>
                /\ Len(openings') = Len(openings) + 1
                /\ SubSeq(openings', 1, Len(openings)) = openings
       /\ \A id \in Ids :
            removeOpening(id) =>
                /\ \A k \in DOMAIN openings' : openings'[k].id # id
                /\ Len(openings') =
                      Len(openings) - Cardinality({i \in DOMAIN openings : openings[i].id = id})
                /\ \A i \in DOMAIN openings :
                      openings[i].id # id =>
                          openings'[i - Cardinality({j \in 1..i : openings[j].id = id})]
                              = openings[i]
       /\ \A id \in Ids :
            (\/ \E text \in FieldTexts : updateOpeningField(id, "width", ParseFloat(text))
             \/ \E type \in Kinds : updateOpeningType(id, type)) =>
                /\ Len(openings') = Len(openings)
                /\ \A i \in DOMAIN openings : openings[i].id # id => openings'[i] = openings[i]
       /\ \A p \in PointerPos :
            MouseMove(p) =>
                /\ Len(openings') = Len(openings)
                /\ \A i \in DOMAIN openings :
                      openings[i].id # tileDragState.targetId => openings'[i] = openings[i]]_vars

\* of two openings the first was widened to 4 m and the second was not
OneOfTwoEdited ==
    /\ Len(openings) = 2
    /\ openings[1].width = Num(4)
    /\ openings[2].width # Num(4)

\* C11: after updateOpeningField(id, field, value) on width or height, the stored
\* value is >= 0, for every input text including negative numbers and text that
\* does not parse.
SizesNonNegative ==
    \A i \in DOMAIN openings :
        /\ Le(Zero, openings[i].width)
        /\ Le(Zero, openings[i].height)

\* C13: a change of an opening's wall selector changes only that opening's
\* wallIndex: its x, y, width, height, type and id are unchanged, and so is every
\* other opening.
SelectorChangesOnlyWallIndex ==
    [][\A id \in Ids, idx \in 0..(MaxWalls - 1) :
        SelectOpeningWall(id, idx) =>
            LET i == FindOpening(openings, id)
            IN  /\ Len(openings') = Len(openings)
                /\ openings'[i].wallIndex = idx
                /\ openings'[i].x = openings[i].x
                /\ openings'[i].y = openings[i].y
                /\ openings'[i].width = openings[i].width
                /\ openings'[i].height = openings[i].height
                /\ openings'[i].type = openings[i].type
                /\ openings'[i].id = openings[i].id
                /\ \A j \in DOMAIN openings : j # i => openings'[j] = openings[j]]_vars

\* an opening placed at x = 2.05 against the 5 x 3 fallback (added on wall index 1
\* while one wall existed) was reassigned to wall 0 and kept its position
ReassignedKeepsPosition ==
    \E i \in DOMAIN openings :
        /\ openings[i].wallIndex = 0
        /\ openings[i].x = Dec(205, 2)
        /\ openings[i].y = Dec(9, 1)

\* the width and height of each kind (m)
KindWidth(type)  == IF type = "door" THEN Dec(90, 2)
                    ELSE IF type = "window" THEN Dec(120, 2) ELSE Dec(80, 2)
KindHeight(type) == IF type = "door" THEN Dec(210, 2)
                    ELSE IF type = "window" THEN Dec(140, 2) ELSE Dec(100, 2)

\* C12 as stated: addOpening(kind, wallIndex) creates an opening with the default
\* width and height of its kind, x = (wallWidth - width)/2, and y = wallHeight -
\* height for a door, y = (wallHeight - height)/2 for a window or mirror, against
\* the wall at wallIndex.
DefaultPlacementExact ==
    [][\A type \in AllKinds, wallIndex \in 0..1 :
        addOpening(type, wallIndex) =>
            LET op    == openings'[Len(openings')]
                walls == getCurrentWalls(wallItems)
                wall  == IF wallIndex < Len(walls) THEN walls[wallIndex + 1]
                         ELSE [w |-> Num(5), h |-> Num(3)]
            IN  /\ op.type = type /\ op.wallIndex = wallIndex
                /\ op.width = KindWidth(type) /\ op.height = KindHeight(type)
                /\ op.x = Div(Sub(wall.w, op.width), Num(2))
                /\ op.y = IF type = "door" THEN Sub(wall.h, op.height)
                          ELSE Div(Sub(wall.h, op.height), Num(2))]_vars

\* C12 amended: addOpening(kind, wallIndex) creates an opening with the default
\* width and height of its kind, x = max(0, (wallWidth - width)/2), and
\* y = max(0, wallHeight - height) for a door, y = max(0, (wallHeight - height)/2)
\* for a window or mirror, against the wall at wallIndex or against a 5 x 3 wall
\* when wallIndex names no wall.
DefaultPlacement ==
    [][\A type \in AllKinds, wallIndex \in 0..1 :
        addOpening(type, wallIndex) =>
            LET op    == openings'[Len(openings')]
                walls == getCurrentWalls(wallItems)
                wall  == IF wallIndex < Len(walls) THEN walls[wallIndex + 1]
                         ELSE [w |-> Num(5), h |-> Num(3)]
            IN  /\ op.type = type /\ op.wallIndex = wallIndex
                /\ op.width = KindWidth(type) /\ op.height = KindHeight(type)
                /\ op.x = MathMax(Zero, Div(Sub(wall.w, op.width), Num(2)))
                /\ op.y = IF type = "door" THEN MathMax(Zero, Sub(wall.h, op.height))
                          ELSE MathMax(Zero, Div(Sub(wall.h, op.height), Num(2)))]_vars

\* on a 3.2 x 1.7 wall a door taller than the wall sits at y = 0, centred at
\* x = 1.15, and a mirror is centred on both axes at (1.2, 0.35)
DoorAndMirrorPlaced ==
    /\ getCurrentWalls(wallItems)[1] = [w |-> Dec(32, 1), h |-> Dec(17, 1)]
    /\ Len(openings) = 2
    /\ openings[1].type = "door" /\ openings[1].wallIndex = 0
    /\ openings[1].x = Dec(115, 2) /\ openings[1].y = Zero
    /\ openings[2].type = "mirror" /\ openings[2].wallIndex = 0
    /\ openings[2].x = Dec(12, 1) /\ openings[2].y = Dec(35, 2)

\* a mousemove at p whose drag offsets are the ones a press at p records for the
\* opening under the current wall and panel size computes the opening's position
\* before clamping, and does not move an opening that lies within its wall
MoveAtPressPoint(p) ==
    LET i         == FindOpening(openings, tileDragState.targetId)
        wallIndex == tileDragState.wallIndex
        wall      == WallOrDefault(getCurrentWalls(wallItems), wallIndex)
        canvas    == panels[wallIndex + 1]
        m         == HitMapping(wall, canvas.clientWidth, canvas.clientHeight)
        op        == openings[i]
        mx        == Num(p[1])
        my        == Num(p[2])
        grab      == GrabOffset(op, m, mx, my)
    IN  (/\ tileDragState.isDragging
         /\ i # 0
         /\ wallIndex + 1 \in DOMAIN panels
         /\ op.wallIndex = wallIndex
         /\ PointerOver(op, m, mx, my)
         /\ tileDragState.startX = grab.startX
         /\ tileDragState.startY = grab.startY
         /\ MouseMove(p))
        => /\ InversePosition(m, tileDragState, mx, my) = [x |-> op.x, y |-> op.y]
           /\ (/\ Le(Zero, op.x) /\ Le(op.x, Sub(wall.w, op.width))
               /\ Le(Zero, op.y) /\ Le(op.y, Sub(wall.h, op.height)))
              => openings' = openings

\* C20 on panels 400 px wide: the pointer mapping of the handlers is the exact
\* inverse of the mapping that places an opening on the panel: when a mousemove
\* arrives at the pointer position p of the press that hit the opening, with the
\* same wall and panel size, the position computed before clamping is the
\* opening's position, and an opening that lies within its wall does not move.
MoveAtPressPointIsIdentity ==
    [][\A p \in PointerPos : MoveAtPressPoint(p)]_vars

\* C20: the pointer mapping of the handlers is the exact inverse of the mapping
\* that places an opening on the panel, on a panel of any width: when a mousemove
\* arrives at the pointer position p of the press that hit the opening, with the
\* same wall and panel size, the position computed before clamping is the
\* opening's position, and an opening that lies within its wall does not move.
MoveAtPressPointIsIdentityAnyPanel ==
    [][\A p \in EdgePointers : MoveAtPressPoint(p)]_vars

\* the last handler that ran was a mousemove at the point where a window lying
\* within its wall was pressed, and the window is where it was
MovedAtPressPoint ==
    /\ hist.moved
    /\ tileDragState.isDragging
    /\ \E i \in DOMAIN openings, p \in PointerPos :
        LET op   == openings[i]
            wall == WallOrDefault(getCurrentWalls(wallItems), tileDragState.wallIndex)
            m    == HitMapping(wall, panels[1].clientWidth, panels[1].clientHeight)
            grab == GrabOffset(op, m, Num(p[1]), Num(p[2]))
        IN  /\ op.id = tileDragState.targetId
            /\ Len(panels) > 0
            /\ PointerOver(op, m, Num(p[1]), Num(p[2]))
            /\ tileDragState.startX = grab.startX
            /\ tileDragState.startY = grab.startY
            /\ Gt(tileDragState.startX, Zero)
            /\ Le(Zero, op.x) /\ Le(op.x, Sub(wall.w, op.width))
            /\ Le(Zero, op.y) /\ Le(op.y, Sub(wall.h, op.height))

\* a direct calculateAll call has returned
TileReturned == call.fn = "calculateAll" /\ call.result # <<>>

WasteNeverLowersCount ==
    TileReturned =>
        LET ps == call.params
            r  == call.result[1]
        IN  (/\ Gt(ps.tileLengthCm, Zero)
             /\ Gt(ps.tileWidthCm, Zero)
             /\ (ps.wastePercent = Null \/ Le(Zero, ps.wastePercent)))
            => /\ Le(r.baseCount, r.finalCount)
               /\ Le(Zero, r.wasteTiles)
               /\ (ps.wastePercent = Null \/ ps.wastePercent = Zero)
                     => r.finalCount = r.baseCount

\* two walls and a door with the waste parameter absent: 65 tiles before and after
\* the waste factor
AbsentWasteSameCount ==
    /\ TileReturned
    /\ call.params.wastePercent = Null
    /\ Len(call.params.walls) = 2
    /\ Len(call.params.openings) = 1
    /\ call.params.tileLengthCm = Num(60)
    /\ call.params.tileWidthCm = Num(30)
    /\ call.result[1].baseCount = Num(65)
    /\ call.result[1].finalCount = Num(65)

\* C16: when the tile length or the tile width passed to calculateAll is zero or
\* negative, every wall contributes 0, so baseCount and finalCount are 0 and no
\* field of the result is infinite or NaN.
BadTileCountsNothing ==
    TileReturned =>
        LET ps == call.params
            r  == call.result[1]
        IN  (Le(ps.tileLengthCm, Zero) \/ Le(ps.tileWidthCm, Zero))
            => /\ r.baseCount = Zero
               /\ r.finalCount = Zero
               /\ \A f \in DOMAIN r : IsFinite(r[f])

\* C17: calculateAll called with an empty wall list returns 0 in every output
\* field, for every openings list and every material parameters.
NoWallsAllZero ==
    TileReturned =>
        (call.params.walls = <<>> =>
            \A f \in DOMAIN call.result[1] : call.result[1][f] = Zero)

\* a direct calcWallpaperAll call has returned
WallpaperReturned == call.fn = "calcWallpaperAll" /\ call.result # <<>>

\* C18 as stated: for every wallpaper input the result satisfies
\* totalRolls * stripsPerRoll >= totalStrips, including when stripsPerRoll = 0
\* while the wall needs at least one strip.
RollsCoverStrips ==
    WallpaperReturned =>
        LET r == call.result[1]
        IN  Le(r.totalStrips, Mul(r.totalRolls, r.stripsPerRoll))

\* C18 amended: when stripsPerRoll > 0 the result satisfies
\* totalRolls * stripsPerRoll >= totalStrips; when stripsPerRoll <= 0 (no roll
\* length, no wall height, or a roll shorter than the effective strip height)
\* totalRolls is 0 whatever totalStrips is.
RollsCoverStripsWhenAnyFit ==
    WallpaperReturned =>
        LET r == call.result[1]
        IN  /\ Gt(r.stripsPerRoll, Zero) =>
                    Le(r.totalStrips, Mul(r.totalRolls, r.stripsPerRoll))
            /\ Le(r.stripsPerRoll, Zero) => r.totalRolls = Zero

\* a 2 m roll on a 2.7 m wall: 8 strips needed, 0 strips per roll, 0 rolls
RollShorterThanStrip ==
    /\ WallpaperReturned
    /\ call.params.rollLengthM = Num(2)
    /\ call.params.wallHeightM = Dec(27, 1)
    /\ call.result[1].totalStrips = Num(8)
    /\ call.result[1].stripsPerRoll = Zero
    /\ call.result[1].totalRolls = Zero

\* a direct drawWallPanel call has drawn a wall rectangle
WallDrawn ==
    /\ call.fn = "drawWallPanel"
    /\ call.result # <<>>
    /\ call.result[1] # <<>>

WorkedTileExample ==
    /\ TileReturned
    /\ call.params.walls = <<[w |-> Num(3), h |-> Dec(25, 1)], [w |-> Num(3), h |-> Dec(25, 1)]>>
    /\ call.params.openings = <<>>
    /\ call.params.tileLengthCm = Num(60)
    /\ call.params.tileWidthCm = Num(30)
    /\ call.params.wastePercent = Num(10)

WallpaperFormulas ==
    WallpaperReturned =>
        LET ps == call.params
            r  == call.result[1]
        IN  /\ r.totalStrips = IF Gt(ps.rollWidthM, Zero)
                               THEN MathCeil(Div(ps.wallWidthM, ps.rollWidthM)) ELSE Zero
            /\ r.stripsPerRoll = IF Gt(r.effectiveStripHeight, Zero)
                                 THEN MathFloor(Div(ps.rollLengthM, r.effectiveStripHeight))
                                 ELSE Zero
            /\ r.totalRolls = IF Gt(r.stripsPerRoll, Zero)
                              THEN MathCeil(Div(r.totalStrips, r.stripsPerRoll)) ELSE Zero
            /\ r.totalPurchasedArea = Mul(Mul(r.totalRolls, ps.rollWidthM), ps.rollLengthM)
            /\ r.totalPrice = Mul(r.totalRolls, ps.rollPrice)
            /\ (/\ ps.rollWidthM = Dec(53, 2) /\ ps.rollLengthM = Dec(1005, 2)
                /\ ps.wallWidthM = Num(4) /\ ps.wallHeightM = Dec(27, 1)
                /\ ps.patternRepeatCm = Zero)
               => /\ r.totalStrips = Num(8)
                  /\ r.stripsPerRoll = Num(3)
                  /\ r.totalRolls = Num(3)

\* the worked example was computed: 8 strips, 3 per roll, 3 rolls at 25 each
WorkedWallpaperExample ==
    /\ WallpaperReturned
    /\ call.params = [wallWidthM |-> Num(4), wallHeightM |-> Dec(27, 1),
                      rollWidthM |-> Dec(53, 2), rollLengthM |-> Dec(1005, 2),
                      patternRepeatCm |-> Zero, rollPrice |-> Num(25)]
    /\ call.result[1].totalStrips = Num(8)
    /\ call.result[1].stripsPerRoll = Num(3)
    /\ call.result[1].totalRolls = Num(3)
    /\ call.result[1].totalPrice = Num(75)

\* C27: for every wall height and pattern repeat the effective strip height is
\* wallHeight + 0.80 when patternRepeat > 0 and wallHeight when patternRepeat = 0,
\* so a wall of height 0 with a pattern repeat has effective strip height 0.80.
StripHeightAddsReserve ==
    WallpaperReturned =>
        LET ps == call.params
            r  == call.result[1]
        IN  r.effectiveStripHeight =
                Add(ps.wallHeightM, IF Gt(ps.patternRepeatCm, Zero) THEN Dec(80, 2) ELSE Zero)

\* the half-up rule on a positive count: count itself when it is whole, the next
\* integer when its fraction exceeds 0.5, the integer below plus 0.5 otherwise
HalfUp(count) ==
    LET frac == Sub(count, MathFloor(count))
    IN  IF frac = Zero THEN count
        ELSE IF Gt(frac, Dec(5, 1)) THEN MathCeil(count)
        ELSE Add(MathFloor(count), Dec(5, 1))

\* the count of a wall by the half-up rule, 0 for a wall without positive width
\* and height
HalfUpWallCount(wall, tLenM, tWidM) ==
    IF Gt(wall.w, Zero) /\ Gt(wall.h, Zero)
    THEN Mul(HalfUp(Div(wall.w, tLenM)), HalfUp(Div(wall.h, tWidM)))
    ELSE Zero

DeductionByArea ==
    TileReturned =>
        LET ps       == call.params
            r        == call.result[1]
            tLenM    == Div(ps.tileLengthCm, Num(100))
            tWidM    == Div(ps.tileWidthCm, Num(100))
            sizes    == [i \in 1..Len(ps.openings) |->
                            [width |-> ps.openings[i].width, height |-> ps.openings[i].height]]
            areas    == SumSeq([i \in 1..Len(sizes) |-> Mul(sizes[i].width, sizes[i].height)])
            counts   == SumSeq([i \in 1..Len(ps.walls) |-> WallCount(ps.walls[i], tLenM, tWidM)])
            preWaste == IF areas = Zero THEN MathMax(Zero, counts)
                        ELSE MathMax(Zero, Sub(counts, Div(areas, Mul(tLenM, tWidM))))
        IN  /\ r.totalDeduction = areas
            /\ r.netArea = MathMax(Zero, Sub(r.grossArea, areas))
            /\ Le(Zero, preWaste)
            /\ r.baseCount = MathCeil(preWaste)
            /\ r = calculateAll([ps EXCEPT !.openings = sizes])

\* C26 for positive tile dimensions and openings of non-negative size
DeductionByAreaValidInput ==
    (/\ TileReturned
     /\ Gt(call.params.tileLengthCm, Zero)
     /\ Gt(call.params.tileWidthCm, Zero)
     /\ \A i \in DOMAIN call.params.openings :
            /\ Le(Zero, call.params.openings[i].width)
            /\ Le(Zero, call.params.openings[i].height))
    => DeductionByArea

\* a wall without positive width and height, or a panel whose padded drawing
\* area is empty
NotDrawable(wall, PW, PH) ==
    \/ ~Gt(wall.w, Zero)
    \/ ~Gt(wall.h, Zero)
    \/ PW - 2 * PAD <= 0
    \/ PH - 2 * PAD - LABEL <= 0

\* C21: for a wall with width or height <= 0, or a panel so small that the padded
\* drawing area is empty, drawWallPanel draws no wall rectangle (no scale is
\* computed), a press captures no opening and a move stores no opening position.
DegenerateGeometryGuarded ==
    /\ [](\A i \in DOMAIN panels :
            panels[i].drawn # <<>> =>
                ~NotDrawable([w |-> panels[i].drawn[1].surfW, h |-> panels[i].drawn[1].surfH],
                             panels[i].drawn[1].PW, panels[i].drawn[1].PH))
    /\ [][\A p \in EdgePointers :
            /\ (/\ 1 \in DOMAIN panels
                 /\ NotDrawable(WallOrDefault(getCurrentWalls(wallItems), 0),
                                panels[1].clientWidth, panels[1].clientHeight)
                 /\ MouseDown(0, p))
                => tileDragState' = tileDragState
            /\ (/\ tileDragState.wallIndex + 1 \in DOMAIN panels
                 /\ NotDrawable(WallOrDefault(getCurrentWalls(wallItems), tileDragState.wallIndex),
                                panels[tileDragState.wallIndex + 1].clientWidth,
                                panels[tileDragState.wallIndex + 1].clientHeight)
                 /\ MouseMove(p))
                => openings' = openings]_vars

\* C24: each opening is drawn on, and can be hit-tested on, exactly the panel that
\* shows the wall at position opening.wallIndex of the wall list, for every wall
\* list, including one where an earlier wall has no width or height and gets no
\* panel.
OpeningsOnTheirWallsPanel ==
    LET walls == getCurrentWalls(wallItems)
        shown == ValidPositions(walls)
    IN  \A k \in DOMAIN panels, i \in DOMAIN openings :
            i \in PanelOpenings(openings, k - 1)
                <=> (k \in DOMAIN shown /\ shown[k] = openings[i].wallIndex)

\* C28: a press captures the opening that comes last in state.openings among the
\* openings of the panel's wall index that contain the pointer, which is the one
\* drawWallPanel paints last; a press that hits no opening leaves tileDragState
\* unchanged.
PressCapturesTopmost ==
    [][\A p \in PointerPos :
        MouseDown(0, p) =>
            LET wall  == WallOrDefault(getCurrentWalls(wallItems), 0)
                m     == HitMapping(wall, panels[1].clientWidth, panels[1].clientHeight)
                under == {i \in DOMAIN openings :
                            /\ openings[i].wallIndex = 0
                            /\ PointerOver(openings[i], m, Num(p[1]), Num(p[2]))}
            IN  IF under = {}
                THEN tileDragState' = tileDragState
                ELSE /\ tileDragState'.isDragging
                     /\ tileDragState'.wallIndex = 0
                     /\ \E i \in under :
                            /\ \A j \in under : j <= i
                            /\ \A j \in PanelOpenings(openings, 0) : j > i => j \notin under
                            /\ tileDragState'.targetId = openings[i].id]_vars

\* two openings of the wall overlap under the pointer and the second one, painted
\* over the first, is the one the press captured
TopOfTwoCaptured ==
    /\ Len(openings) = 2
    /\ Len(panels) > 0
    /\ tileDragState.isDragging
    /\ tileDragState.targetId = openings[2].id
    /\ openings[1].id # openings[2].id
    /\ \E p \in PointerPos :
        LET wall == WallOrDefault(getCurrentWalls(wallItems), 0)
            m    == HitMapping(wall, panels[1].clientWidth, panels[1].clientHeight)
            grab == GrabOffset(openings[2], m, Num(p[1]), Num(p[2]))
        IN  /\ PanelOpenings(openings, 0) = {1, 2}
            /\ PointerOver(openings[1], m, Num(p[1]), Num(p[2]))
            /\ PointerOver(openings[2], m, Num(p[1]), Num(p[2]))
            /\ tileDragState.startX = grab.startX
            /\ tileDragState.startY = grab.startY

\* C29: when runCalculation finds no valid wall, and so clears the results
\* display, state.lastResult is null afterwards; the handlers that call
\* runCalculation are those of the wall rows and of the openings manager
ClearedResultIsNull ==
    [][(/\ \/ \E i \in 1..MaxWalls : RemoveWall(i)
           \/ \E i \in 1..MaxWalls, text \in WidthTexts : EditWall(i, "width", text)
           \/ \E i \in 1..MaxWalls, text \in HeightTexts : EditWall(i, "height", text)
           \/ \E wallIndex \in 0..(MaxWalls - 1) : addOpening("door", wallIndex)
           \/ \E id \in Ids : removeOpening(id)
           \/ \E id \in Ids, idx \in 0..(MaxWalls - 1) : SelectOpeningWall(id, idx)
        /\ Len(ValidWalls(getCurrentWalls(wallItems'))) = 0)
            => lastResult' = <<>>]_vars

\* C30: while a layout pattern is active, the waste percent runCalculation hands to
\* the estimator is that pattern's wastePercent in LAYOUT_PATTERNS; a move of the
\* waste slider and resetTiles leave no pattern active
PatternWasteIsFed ==
    /\ [](activePattern # <<>> =>
            /\ activePattern[1] \in PatternKeys
            /\ CalcParams(ValidWalls(getCurrentWalls(wallItems)), openings, tileInputs).wastePercent
                    = LAYOUT_PATTERNS(activePattern[1]).wastePercent)
    /\ [][((\E text \in SliderTexts : WasteInput(text)) \/ resetTiles)
            => activePattern' = <<>>]_vars

\* the brick pattern is active on a valid wall, and the result on display was
\* calculated with its 10 percent: 33 tiles before waste, 37 with it
BrickPatternCounted ==
    /\ activePattern = <<"brick">>
    /\ tileInputs.wastePct = "10"
    /\ lastResult # <<>>
    /\ lastResult[1].baseCount = Num(33)
    /\ lastResult[1].finalCount = Num(37)

====
